---- MODULE Spec2Model ----
(***************************************************************************)
(* Genertools: generators (suspendable computations) wrapped as iterators. *)
(*                                                                         *)
(*   src/src/geniter.rs   GenIter<G>(Option<G>), the owning wrapper        *)
(*   src/src/gentrait.rs  GenTrait, Map, Filter, Iter (borrowing wrapper)  *)
(*   src/src/iter.rs      iter!, try_yield!, once, repeat, repeatn,        *)
(*                        filter_while, alternate, alternate_by, flatten,  *)
(*                        islice                                           *)
(*                                                                         *)
(* A generator is a record: its kind, its captured values and the place    *)
(* where its body is suspended.  resume() is the operator Resume, which    *)
(* returns the GeneratorState and the generator as resume() left it.       *)
(* The fields resumes, calls and polls count what a body did (resumes of   *)
(* a closure, applications of a function or predicate, polls of an         *)
(* iterator); no body reads them.                                          *)
(***************************************************************************)
EXTENDS Integers, Sequences, FiniteSets

VARIABLES
    given,       \* the generator the wrapper was built over, as it was then
    slot,        \* GenIter.0 : Option<G>
    takes,       \* what the calls of GenIter::take() returned, oldest first
    quick_iter,  \* the generator a caller owns and lends to Iter
    iter,        \* Iter.0 : Option<PinMut<G>>
    out,         \* what the calls of next() returned, oldest first
    lent,        \* what the resumes made through a reference the wrapper or
                 \* pipeline handed out (as_mut, as_pin) returned, oldest first
    resumed,     \* number of resume() calls made on the wrapper's generator
    late,        \* resume() calls made after that generator reported Complete
    last,        \* what the latest of these resume() calls returned and left
    completed,   \* some resume() of the wrapper's generator returned Complete
    panicked,    \* a resume() panicked: the thread is unwinding
    fpc          \* where a stepwise Filter::resume call stands

vars == <<given, slot, takes, quick_iter, iter, out, lent, resumed, late, last,
          completed, panicked, fpc>>

(***************************************************************************)
(* Bounds of the model.                                                    *)
(***************************************************************************)
MaxLen == 3      \* longest sequence a closure or an iterator is built from
MaxCalls == 7    \* calls of next() that are recorded
MaxN == 3        \* largest n given to repeatn
MaxTakes == 2    \* calls of GenIter::take() that are recorded
MaxLent == 2     \* resumes through a handed-out reference that are recorded
MaxRange == 6    \* longest range 0..L an iterator is built from
MaxOuter == 4    \* most inner sequences flatten is given
MaxArg == 3      \* largest start, stop and step given to islice

Vals == {10, 20, 30}          \* the items of tests::generator_map
Rets == {0, 7}                \* final values a closure returns
Funcs == {"times10", "plus1"}
Preds == {"gt199", "gt15", "always", "never"}

(***************************************************************************)
(* Option<T> and GeneratorState<Y, R>.                                     *)
(***************************************************************************)
NoGen == [kind |-> "none"]

None == [tag |-> "None"]
Some(x) == [tag |-> "Some", val |-> x]

Yielded(y, g) == [state |-> "Yielded", val |-> y, gen |-> g]
Complete(r, g) == [state |-> "Complete", val |-> r, gen |-> g]
Panic(g) == [state |-> "Panic", val |-> 0, gen |-> g]

NoState == [state |-> "NotResumed", val |-> 0, gen |-> NoGen]

\* The items of the range a..b.
RangeSeq(a, b) == [i \in 1..(b - a) |-> a + i - 1]

\* All sequences over S of length at most n.
SeqsUpTo(S, n) == UNION {[1..k -> S] : k \in 0..n}

(***************************************************************************)
(* The closures handed to map and filter.                                  *)
(***************************************************************************)
ApplyFunc(f, x) ==
    CASE f = "times10" -> x * 10
      [] f = "plus1" -> x + 1

ApplyPred(p, x) ==
    CASE p = "gt199" -> x > 199
      [] p = "gt15" -> x > 15
      [] p = "always" -> TRUE
      [] p = "never" -> FALSE

(***************************************************************************)
(* A std iterator over a sequence (vec::IntoIter, a range): next() takes   *)
(* the front item; an exhausted iterator keeps returning None.             *)
(***************************************************************************)
StdIter(items) == [items |-> items, polls |-> 0]

StdNext(it) ==
    IF it.items = <<>>
    THEN [opt |-> None, it |-> [it EXCEPT !.polls = @ + 1]]
    ELSE [opt |-> Some(Head(it.items)),
          it |-> [it EXCEPT !.items = Tail(@), !.polls = @ + 1]]

\* Iterator::nth(k) drops k items and takes the next one.
StdNth(it, k) ==
    IF Len(it.items) > k
    THEN [opt |-> Some(it.items[k + 1]),
          it |-> [it EXCEPT !.items = SubSeq(@, k + 2, Len(@)), !.polls = @ + 1]]
    ELSE [opt |-> None, it |-> [it EXCEPT !.items = <<>>, !.polls = @ + 1]]

\* DoubleEndedIterator::next_back takes the back item.
StdNextBack(it) ==
    IF it.items = <<>>
    THEN [opt |-> None, it |-> [it EXCEPT !.polls = @ + 1]]
    ELSE [opt |-> Some(it.items[Len(it.items)]),
          it |-> [it EXCEPT !.items = SubSeq(@, 1, Len(@) - 1), !.polls = @ + 1]]

(***************************************************************************)
(* Generator literals.                                                     *)
(***************************************************************************)
\* move || { yield v1; ...; yield vn; r }.  selfref: the literal is static
\* and the items it yields are read through a borrow of one of its own
\* locals, held across its yields; dangling: it was moved while that borrow
\* was held, so the borrow points at where it lay before.
Gen(items, ret) ==
    [kind |-> "gen", items |-> items, ret |-> ret, done |-> FALSE, resumes |-> 0,
     selfref |-> FALSE, dangling |-> FALSE]

\* static move || { let x = [v1, .., vn]; let r = &x; yield r[0]; ...; ret }
StaticGen(items, ret) == [Gen(items, ret) EXCEPT !.selfref = TRUE]

\* Map::new
MapNew(generator, func) ==
    [kind |-> "map", generator |-> generator, func |-> func, calls |-> 0,
     resumes |-> 0]

\* Filter::new
FilterNew(generator, pred) ==
    [kind |-> "filter", generator |-> generator, pred |-> pred, calls |-> 0,
     resumes |-> 0]

\* the closure of once(x): move || { yield x }
OnceGen(x) == [kind |-> "once", x |-> x, pc |-> "start"]

\* the closure of repeat(x): move || loop { yield x }
RepeatGen(x) == [kind |-> "repeat", x |-> x]

\* the closure of repeatn(x, n): move || for _ in 0..n { yield x }
RepeatnGen(x, n) == [kind |-> "repeatn", x |-> x, n |-> n, i |-> 0, done |-> FALSE]

\* the closure of filter_while(f, iter)
FilterWhileGen(f, items) ==
    [kind |-> "filter_while", f |-> f, iter |-> StdIter(items), pc |-> "while",
     calls |-> 0]

\* the closure of alternate(iter)
AlternateGen(items) ==
    [kind |-> "alternate", iter |-> StdIter(items), pc |-> "front"]

\* the closure of alternate_by(iter, n)
AlternateByGen(items, n) ==
    [kind |-> "alternate_by", iter |-> StdIter(items), n |-> n, pc |-> "front",
     i |-> 0]

\* the closure of flatten(iter): cur is the inner iterator of the running
\* inner for loop
FlattenGen(seqs) ==
    [kind |-> "flatten", iter |-> StdIter(seqs), cur |-> StdIter(<<>>),
     pc |-> "outer"]

\* the closure of islice(iter, start, stop, step), with the state of the
\* adaptors its match arm builds: Skip.n, StepBy.first_take, Take.n
ISliceGen(items, start, stop, step) ==
    [kind |-> "islice", iter |-> StdIter(items), start |-> start, stop |-> stop,
     step |-> step, pc |-> "start",
     skipn |-> IF start = None THEN 0 ELSE start.val,
     first_take |-> TRUE,
     taken |-> IF stop = None THEN 0 ELSE stop.val]

(***************************************************************************)
(* resume().  Resume dispatches on the generator's type, as the trait call *)
(* does.                                                                   *)
(***************************************************************************)
RECURSIVE Resume(_)
RECURSIVE FilterLoop(_)
RECURSIVE AlternateByLoop(_)
RECURSIVE FlattenResume(_)
RECURSIVE FlattenResumeEager(_)

\* A closure with its yields in a row.  A closure that has returned panics
\* when it is resumed.
GenResume(g) ==
    IF g.done
    THEN Panic([g EXCEPT !.resumes = @ + 1])
    ELSE IF g.items # <<>>
         THEN Yielded(Head(g.items), [g EXCEPT !.items = Tail(@), !.resumes = @ + 1])
         ELSE Complete(g.ret, [g EXCEPT !.done = TRUE, !.resumes = @ + 1])

\* Map::resume gone wrong: the function is applied to its own result
MapResumeTwice(g) ==
    LET r == Resume(g.generator)
        h == [g EXCEPT !.generator = r.gen, !.resumes = @ + 1]
    IN  CASE r.state = "Yielded" ->
                Yielded(ApplyFunc(g.func, ApplyFunc(g.func, r.val)),
                        [h EXCEPT !.calls = @ + 2])
          [] r.state = "Complete" -> Complete(r.val, h)
          [] r.state = "Panic" -> Panic(h)

\* <Map<G, F> as Generator>::resume
MapResume(g) ==
    LET r == Resume(g.generator)
        h == [g EXCEPT !.generator = r.gen, !.resumes = @ + 1]
    IN  CASE r.state = "Yielded" ->
                Yielded(ApplyFunc(g.func, r.val), [h EXCEPT !.calls = @ + 1])
          [] r.state = "Complete" -> Complete(r.val, h)
          [] r.state = "Panic" -> Panic(h)

\* Filter::resume gone wrong: the loop is left on any item, accepted or not
FilterTurnEager(g) ==
    LET r == Resume(g.generator)
        h == [g EXCEPT !.generator = r.gen]
    IN  CASE r.state = "Yielded" ->
                [brk |-> TRUE, res |-> Yielded(r.val, [h EXCEPT !.calls = @ + 1])]
          [] r.state = "Complete" -> [brk |-> TRUE, res |-> Complete(r.val, h)]
          [] r.state = "Panic" -> [brk |-> TRUE, res |-> Panic(h)]

\* Filter::resume gone wrong: the loop goes on past an accepted item
FilterTurnNoBreak(g) ==
    LET r == Resume(g.generator)
        h == [g EXCEPT !.generator = r.gen]
    IN  CASE r.state = "Yielded" ->
                [brk |-> FALSE, res |-> Yielded(r.val, [h EXCEPT !.calls = @ + 1])]
          [] r.state = "Complete" -> [brk |-> TRUE, res |-> Complete(r.val, h)]
          [] r.state = "Panic" -> [brk |-> TRUE, res |-> Panic(h)]

\* <Filter<G, F> as Generator>::resume, one turn of its loop: brk says
\* whether the turn left the loop (res is then what resume returns).
FilterTurn(g) ==
    LET r == Resume(g.generator)
        h == [g EXCEPT !.generator = r.gen]
    IN  CASE r.state = "Yielded" ->
                IF ApplyPred(g.pred, r.val)
                THEN [brk |-> TRUE, res |-> Yielded(r.val, [h EXCEPT !.calls = @ + 1])]
                ELSE [brk |-> FALSE, res |-> Yielded(r.val, [h EXCEPT !.calls = @ + 1])]
          [] r.state = "Complete" -> [brk |-> TRUE, res |-> Complete(r.val, h)]
          [] r.state = "Panic" -> [brk |-> TRUE, res |-> Panic(h)]

\* <Filter<G, F> as Generator>::resume, the loop
FilterLoop(g) ==
    LET t == FilterTurn(g) IN
    IF t.brk THEN t.res ELSE FilterLoop(t.res.gen)

\* <Filter<G, F> as Generator>::resume
FilterResume(g) == FilterLoop([g EXCEPT !.resumes = @ + 1])

\* once gone wrong: the body yields x again instead of returning
OnceResumeAgain(g) ==
    CASE g.pc = "start" -> Yielded(g.x, [g EXCEPT !.pc = "yield1"])
      [] g.pc = "yield1" -> Yielded(g.x, [g EXCEPT !.pc = "done"])
      [] g.pc = "done" -> Complete(0, g)

\* once: move || { yield x }
OnceResume(g) ==
    CASE g.pc = "start" -> Yielded(g.x, [g EXCEPT !.pc = "yield1"])
      [] g.pc = "yield1" -> Complete(0, [g EXCEPT !.pc = "done"])
      [] g.pc = "done" -> Panic(g)

\* repeat gone wrong: the body yields nothing and returns
RepeatResumeReturns(g) == Complete(0, g)

\* repeat: move || loop { yield x }
RepeatResume(g) == Yielded(g.x, g)

\* repeatn gone wrong: the range is 0..=n
RepeatnResumeInclusive(g) ==
    IF g.done
    THEN Panic(g)
    ELSE IF g.i <= g.n
         THEN Yielded(g.x, [g EXCEPT !.i = @ + 1])
         ELSE Complete(0, [g EXCEPT !.done = TRUE])

\* repeatn: move || for _ in 0..n { yield x }
RepeatnResume(g) ==
    IF g.done
    THEN Panic(g)
    ELSE IF g.i < g.n
         THEN Yielded(g.x, [g EXCEPT !.i = @ + 1])
         ELSE Complete(0, [g EXCEPT !.done = TRUE])

\* filter_while, the second loop: for item in iter { yield item; }
FilterWhileFor(g) ==
    LET n == StdNext(g.iter) IN
    IF n.opt = None
    THEN Complete(0, [g EXCEPT !.iter = n.it, !.pc = "done"])
    ELSE Yielded(n.opt.val, [g EXCEPT !.iter = n.it, !.pc = "for"])

\* filter_while gone wrong: the rejected item is yielded too
FilterWhileResumeKeeps(g) ==
    CASE g.pc = "while" ->
            LET n == StdNext(g.iter)
                h == [g EXCEPT !.iter = n.it]
            IN  IF n.opt = None
                THEN FilterWhileFor(h)
                ELSE IF ApplyPred(g.f, n.opt.val)
                     THEN Yielded(n.opt.val, [h EXCEPT !.calls = @ + 1])
                     ELSE Yielded(n.opt.val, [h EXCEPT !.calls = @ + 1, !.pc = "for"])
      [] g.pc = "for" -> FilterWhileFor(g)
      [] g.pc = "done" -> Panic(g)

\* filter_while gone wrong: the closure returns at the rejected item
FilterWhileResumeStops(g) ==
    CASE g.pc = "while" ->
            LET n == StdNext(g.iter)
                h == [g EXCEPT !.iter = n.it]
            IN  IF n.opt = None
                THEN FilterWhileFor(h)
                ELSE IF ApplyPred(g.f, n.opt.val)
                     THEN Yielded(n.opt.val, [h EXCEPT !.calls = @ + 1])
                     ELSE Complete(0, [h EXCEPT !.calls = @ + 1, !.pc = "done"])
      [] g.pc = "for" -> FilterWhileFor(g)
      [] g.pc = "done" -> Panic(g)

\* filter_while: the closure, resumed where it is suspended
FilterWhileResume(g) ==
    CASE g.pc = "while" ->
            LET n == StdNext(g.iter)
                h == [g EXCEPT !.iter = n.it]
            IN  IF n.opt = None
                THEN FilterWhileFor(h)
                ELSE IF ApplyPred(g.f, n.opt.val)
                     THEN Yielded(n.opt.val, [h EXCEPT !.calls = @ + 1])
                     ELSE FilterWhileFor([h EXCEPT !.calls = @ + 1])
      [] g.pc = "for" -> FilterWhileFor(g)
      [] g.pc = "done" -> Panic(g)

\* try_yield!(option): yield the item and go on at pc, or return
TryYield(n, g, pc) ==
    IF n.opt = None
    THEN Complete(0, [g EXCEPT !.iter = n.it, !.pc = "done"])
    ELSE Yielded(n.opt.val, [g EXCEPT !.iter = n.it, !.pc = pc])

\* alternate gone wrong: every item is taken from the front
AlternateResumeFront(g) ==
    CASE g.pc = "front" -> TryYield(StdNext(g.iter), g, "front")
      [] g.pc = "back" -> TryYield(StdNextBack(g.iter), g, "front")
      [] g.pc = "done" -> Panic(g)

\* alternate gone wrong: when one end gives nothing the other end is tried
AlternateResumeSkips(g) ==
    CASE g.pc = "front" ->
            LET n == StdNext(g.iter) IN
            IF n.opt = None
            THEN TryYield(StdNextBack(n.it), g, "front")
            ELSE TryYield(n, g, "back")
      [] g.pc = "back" ->
            LET n == StdNextBack(g.iter) IN
            IF n.opt = None
            THEN TryYield(StdNext(n.it), g, "back")
            ELSE TryYield(n, g, "front")
      [] g.pc = "done" -> Panic(g)

\* alternate: move || loop { try_yield!(iter.next()); try_yield!(iter.next_back()); }
AlternateResume(g) ==
    CASE g.pc = "front" -> TryYield(StdNext(g.iter), g, "back")
      [] g.pc = "back" -> TryYield(StdNextBack(g.iter), g, "front")
      [] g.pc = "done" -> Panic(g)

\* the body goes on without yielding or returning
Running(g) == [state |-> "Running", val |-> 0, gen |-> g]

\* alternate_by gone wrong: the back items are taken one at a time
AlternateByTurnOneBack(g) ==
    CASE g.pc = "front" ->
            IF g.i < g.n
            THEN [brk |-> TRUE,
                  res |-> TryYield(StdNext(g.iter), [g EXCEPT !.i = @ + 1], "front")]
            ELSE [brk |-> FALSE, res |-> Running([g EXCEPT !.pc = "back", !.i = 0])]
      [] g.pc = "back" ->
            IF g.i < 1
            THEN [brk |-> TRUE,
                  res |-> TryYield(StdNextBack(g.iter), [g EXCEPT !.i = @ + 1], "back")]
            ELSE [brk |-> FALSE, res |-> Running([g EXCEPT !.pc = "front", !.i = 0])]
      [] g.pc = "done" -> [brk |-> TRUE, res |-> Panic(g)]

\* alternate_by, the closure body up to its next try_yield! or to the end
\* of a for loop: brk says whether the body yielded or returned there
AlternateByTurn(g) ==
    CASE g.pc = "front" ->
            IF g.i < g.n
            THEN [brk |-> TRUE,
                  res |-> TryYield(StdNext(g.iter), [g EXCEPT !.i = @ + 1], "front")]
            ELSE [brk |-> FALSE, res |-> Running([g EXCEPT !.pc = "back", !.i = 0])]
      [] g.pc = "back" ->
            IF g.i < g.n
            THEN [brk |-> TRUE,
                  res |-> TryYield(StdNextBack(g.iter), [g EXCEPT !.i = @ + 1], "back")]
            ELSE [brk |-> FALSE, res |-> Running([g EXCEPT !.pc = "front", !.i = 0])]
      [] g.pc = "done" -> [brk |-> TRUE, res |-> Panic(g)]

\* alternate_by, the closure body from one resume to its yield or return
AlternateByLoop(g) ==
    LET t == AlternateByTurn(g) IN
    IF t.brk THEN t.res ELSE AlternateByLoop(t.res.gen)

\* alternate_by: the closure, resumed where it is suspended
AlternateByResume(g) == AlternateByLoop(g)

\* flatten gone wrong: the next inner sequence is pulled from the outer one
\* before the item is yielded
FlattenResumeEager(g) ==
    CASE g.pc = "outer" ->
            LET n == StdNext(g.iter) IN
            IF n.opt = None
            THEN Complete(0, [g EXCEPT !.iter = n.it, !.pc = "done"])
            ELSE FlattenResumeEager([g EXCEPT !.iter = n.it, !.pc = "inner",
                                              !.cur = StdIter(n.opt.val)])
      [] g.pc = "inner" ->
            LET n == StdNext(g.cur) IN
            IF n.opt = None
            THEN FlattenResumeEager([g EXCEPT !.cur = n.it, !.pc = "outer"])
            ELSE IF n.it.items = <<>>
                 THEN LET m == StdNext(g.iter) IN
                      Yielded(n.opt.val,
                              [g EXCEPT !.iter = m.it,
                                        !.pc = IF m.opt = None THEN "outer" ELSE "inner",
                                        !.cur = IF m.opt = None THEN n.it
                                                ELSE StdIter(m.opt.val)])
                 ELSE Yielded(n.opt.val, [g EXCEPT !.cur = n.it])
      [] g.pc = "done" -> Panic(g)

\* flatten: move || for it in iter { for x in it { yield x } }
FlattenResume(g) ==
    CASE g.pc = "outer" ->
            LET n == StdNext(g.iter) IN
            IF n.opt = None
            THEN Complete(0, [g EXCEPT !.iter = n.it, !.pc = "done"])
            ELSE FlattenResume([g EXCEPT !.iter = n.it, !.pc = "inner",
                                         !.cur = StdIter(n.opt.val)])
      [] g.pc = "inner" ->
            LET n == StdNext(g.cur) IN
            IF n.opt = None
            THEN FlattenResume([g EXCEPT !.cur = n.it, !.pc = "outer"])
            ELSE Yielded(n.opt.val, [g EXCEPT !.cur = n.it])
      [] g.pc = "done" -> Panic(g)

\* islice: next() of iter, or of iter.skip(start)
BaseNext(g) ==
    IF g.start = None \/ g.skipn = 0
    THEN LET a == StdNext(g.iter) IN
         [opt |-> a.opt, gen |-> [g EXCEPT !.iter = a.it]]
    ELSE LET a == StdNth(g.iter, g.skipn) IN
         [opt |-> a.opt, gen |-> [g EXCEPT !.iter = a.it, !.skipn = 0]]

\* islice: nth(k) of iter, or of iter.skip(start).  Skip::nth with items
\* still to skip is one call of the underlying nth, for the item at
\* skip + k (the sum stays far below usize::MAX here)
BaseNth(g, k) ==
    IF g.start = None \/ g.skipn = 0
    THEN LET a == StdNth(g.iter, k) IN
         [opt |-> a.opt, gen |-> [g EXCEPT !.iter = a.it]]
    ELSE LET a == StdNth(g.iter, g.skipn + k) IN
         [opt |-> a.opt, gen |-> [g EXCEPT !.iter = a.it, !.skipn = 0]]

\* step_by gone wrong: the items stepped over are dropped right after an
\* item is taken, not before the next one
SteppedNextEager(g) ==
    IF g.step = None
    THEN BaseNext(g)
    ELSE LET a == BaseNext(g) IN
         IF g.step.val > 1
         THEN [opt |-> a.opt, gen |-> BaseNth(a.gen, g.step.val - 2).gen]
         ELSE a

\* islice: next() of the above, or of its .step_by(step)
SteppedNext(g) ==
    IF g.step = None
    THEN BaseNext(g)
    ELSE IF g.first_take
         THEN BaseNext([g EXCEPT !.first_take = FALSE])
         ELSE BaseNth(g, g.step.val - 1)

\* take gone wrong: one item more than stop
TakenNextInclusive(g) ==
    IF g.stop = None
    THEN SteppedNext(g)
    ELSE IF g.taken >= 0
         THEN SteppedNext([g EXCEPT !.taken = @ - 1])
         ELSE [opt |-> None, gen |-> g]

\* islice: next() of the above, or of its .take(stop)
TakenNext(g) ==
    IF g.stop = None
    THEN SteppedNext(g)
    ELSE IF g.taken # 0
         THEN SteppedNext([g EXCEPT !.taken = @ - 1])
         ELSE [opt |-> None, gen |-> g]

\* islice: move || match (start, stop, step) { .. => g!(x, for x in ..) };
\* step_by(0) panics when the match arm is reached
ISliceResume(g) ==
    CASE g.pc = "start" /\ g.step = Some(0) -> Panic([g EXCEPT !.pc = "done"])
      [] g.pc \in {"start", "for"} /\ ~(g.pc = "start" /\ g.step = Some(0)) ->
            LET n == TakenNext(g) IN
            IF n.opt = None
            THEN Complete(0, [n.gen EXCEPT !.pc = "done"])
            ELSE Yielded(n.opt.val, [n.gen EXCEPT !.pc = "for"])
      [] g.pc = "done" -> Panic(g)

Resume(g) ==
    CASE g.kind = "gen" -> GenResume(g)
      [] g.kind = "map" -> MapResume(g)
      [] g.kind = "filter" -> FilterResume(g)
      [] g.kind = "once" -> OnceResume(g)
      [] g.kind = "repeat" -> RepeatResume(g)
      [] g.kind = "repeatn" -> RepeatnResume(g)
      [] g.kind = "filter_while" -> FilterWhileResume(g)
      [] g.kind = "alternate" -> AlternateResume(g)
      [] g.kind = "alternate_by" -> AlternateByResume(g)
      [] g.kind = "flatten" -> FlattenResume(g)
      [] g.kind = "islice" -> ISliceResume(g)

(***************************************************************************)
(* Moving a generator.  GenIter::next moves the generator out of the slot, *)
(* resumes it and moves it back, for every G: Generator; it asks for no    *)
(* Unpin.  A static literal that holds a borrow of its own locals across a *)
(* yield is left with a dangling borrow by the move, and what it reads     *)
(* through it from then on is undefined: any value.                        *)
(***************************************************************************)
\* a value that is no item of any closure here; it stands for whatever lies
\* where the borrow points
Stray == {1}

\* what a read through a dangling borrow may give: the item after all, or
\* anything else
Wild == Vals \cup Stray

\* g is moved (self.0.take() moves it out of the slot, self.0 = Some(gen)
\* back into it).  A static literal holds its borrow from its first resume
\* on; one that was not resumed yet holds none and is moved safely.
Moved(g) ==
    IF g.kind = "gen" /\ g.selfref /\ g.resumes > 0
    THEN [g EXCEPT !.dangling = TRUE]
    ELSE g

\* Option::take on the slot: what it hands out, moved out of the slot
OptionTake(o) == IF o = None THEN None ELSE Some(Moved(o.val))

\* what gen.resume() may return
Outcomes(g) ==
    LET r == Resume(g) IN
    IF g.kind = "gen" /\ g.dangling /\ r.state = "Yielded"
    THEN {[r EXCEPT !.val = w] : w \in Wild}
    ELSE {r}

(***************************************************************************)
(* The functions of iter.rs: iter!(body) is GenIter::new(move || body).    *)
(***************************************************************************)
GenIterNew(generator) == Some(generator)

once(x) == GenIterNew(OnceGen(x))
repeat(x) == GenIterNew(RepeatGen(x))
repeatn(x, n) == GenIterNew(RepeatnGen(x, n))
filter_while(f, items) == GenIterNew(FilterWhileGen(f, items))
alternate(items) == GenIterNew(AlternateGen(items))
alternate_by(items, n) == GenIterNew(AlternateByGen(items, n))
flatten(seqs) == GenIterNew(FlattenGen(seqs))
islice(items, start, stop, step) == GenIterNew(ISliceGen(items, start, stop, step))

(***************************************************************************)
(* GenIter: the wrapper that owns its generator.                           *)
(***************************************************************************)
\* the double-ended sequences alternate is given: ranges 0..L, and others
Ranges == {RangeSeq(0, l) : l \in 0..MaxRange}
DoubleEnded == Ranges \cup SeqsUpTo(Vals, MaxLen)

\* the sequences of sequences flatten is given
InnerSeqs == {<<>>, <<10>>, <<20, 30>>}
Nested == SeqsUpTo(InnerSeqs, MaxOuter)

\* what islice is given: a range 1..=L; start and stop absent or 0..MaxArg;
\* step absent or 1..MaxArg (step_by panics on 0)
Counting == {RangeSeq(1, l + 1) : l \in 0..MaxRange}
OptArgs == {None} \cup {Some(k) : k \in 0..MaxArg}
OptSteps == {None} \cup {Some(k) : k \in 1..MaxArg}

Closures == {Gen(s, r) : s \in SeqsUpTo(Vals, MaxLen), r \in Rets}

\* static literals: GenIter::new takes them too (Iter and GenTrait ask for
\* Unpin and do not)
Statics == {StaticGen(s, r) : s \in SeqsUpTo(Vals, MaxLen), r \in Rets}

GenIters ==
    {GenIterNew(g) : g \in Closures \cup Statics}
    \cup {once(x) : x \in Vals}
    \cup {repeat(x) : x \in Vals}
    \cup {repeatn(x, n) : x \in Vals, n \in 0..MaxN}
    \cup {filter_while(f, s) : f \in Preds, s \in SeqsUpTo(Vals, MaxLen)}
    \cup {alternate(s) : s \in DoubleEnded}
    \cup {alternate_by(s, n) : s \in DoubleEnded, n \in 1..MaxN}
    \cup {flatten(ss) : ss \in Nested}
    \cup {islice(s, a, b, c) : s \in Counting, a \in OptArgs, b \in OptArgs,
                                c \in OptSteps}

Init ==
    /\ slot \in GenIters
    /\ given = slot.val
    /\ takes = <<>>
    /\ quick_iter = NoGen
    /\ iter = None
    /\ out = <<>>
    /\ lent = <<>>
    /\ resumed = 0
    /\ late = 0
    /\ last = NoState
    /\ completed = FALSE
    /\ panicked = FALSE
    /\ fpc = "idle"

\* What a wrapper's resume() of its generator leaves in the counters.
Observe(r) ==
    /\ resumed' = resumed + 1
    /\ late' = IF completed THEN late + 1 ELSE late
    /\ last' = r
    /\ completed' = (completed \/ r.state = "Complete")
    /\ panicked' = (r.state = "Panic")

\* GenIter::next gone wrong: a generator that yielded is not stored back
GenIterNextDrops ==
    /\ ~panicked
    /\ Len(out) < MaxCalls
    /\ IF slot = None
       THEN /\ out' = Append(out, None)
            /\ UNCHANGED <<slot, resumed, late, last, completed, panicked>>
       ELSE \E r \in Outcomes(OptionTake(slot).val) :
            /\ Observe(r)
            /\ slot' = None
            /\ out' = IF r.state = "Yielded" THEN Append(out, Some(r.val))
                      ELSE IF r.state = "Complete" THEN Append(out, None)
                      ELSE out
    /\ UNCHANGED <<given, takes, quick_iter, iter, lent, fpc>>

\* GenIter::next gone wrong: a generator that completed is stored back
GenIterNextKeeps ==
    /\ ~panicked
    /\ Len(out) < MaxCalls
    /\ IF slot = None
       THEN /\ out' = Append(out, None)
            /\ UNCHANGED <<slot, resumed, late, last, completed, panicked>>
       ELSE \E r \in Outcomes(OptionTake(slot).val) :
            /\ Observe(r)
            /\ slot' = IF r.state = "Panic" THEN None ELSE Some(Moved(r.gen))
            /\ out' = IF r.state = "Yielded" THEN Append(out, Some(r.val))
                      ELSE IF r.state = "Complete" THEN Append(out, None)
                      ELSE out
    /\ UNCHANGED <<given, takes, quick_iter, iter, lent, fpc>>

\* GenIter::next: self.take()? moves the generator into the local gen,
\* gen.resume() runs there, and a generator that yielded is moved back
GenIterNext ==
    /\ ~panicked
    /\ Len(out) < MaxCalls
    /\ IF slot = None
       THEN /\ out' = Append(out, None)
            /\ UNCHANGED <<slot, resumed, late, last, completed, panicked>>
       ELSE \E r \in Outcomes(OptionTake(slot).val) :
            /\ Observe(r)
            /\ CASE r.state = "Yielded" ->
                      /\ slot' = Some(Moved(r.gen))
                      /\ out' = Append(out, Some(r.val))
                 [] r.state = "Complete" ->
                      /\ slot' = None
                      /\ out' = Append(out, None)
                 [] r.state = "Panic" ->
                      /\ slot' = None
                      /\ out' = out
    /\ UNCHANGED <<given, takes, quick_iter, iter, lent, fpc>>

\* GenIter::take
GenIterTake ==
    /\ ~panicked
    /\ Len(takes) < MaxTakes
    /\ takes' = Append(takes, OptionTake(slot))
    /\ slot' = None
    /\ UNCHANGED <<given, quick_iter, iter, out, lent, resumed, late, last,
                   completed, panicked, fpc>>

\* <G as GenTrait>::next; res is the GeneratorState it matched on
GenTraitNext(g) ==
    LET r == Resume(g) IN
    [opt |-> IF r.state = "Yielded" THEN Some(r.val) ELSE None,
     gen |-> r.gen, res |-> r]

\* GenIter::as_mut and what its caller does with the &mut G it hands out:
\* gi.as_mut().map(|g| GenTrait::next(PinMut::new(g))), or g.resume() when
\* G is not Unpin.  The generator is resumed where it lies, in the slot,
\* whatever the resume returns.
GenIterAsMut ==
    /\ ~panicked
    /\ Len(lent) < MaxLent
    /\ IF slot = None
       THEN /\ lent' = Append(lent, None)
            /\ UNCHANGED <<slot, resumed, late, last, completed, panicked>>
       ELSE \E r \in Outcomes(slot.val) :
            /\ Observe(r)
            /\ slot' = Some(r.gen)
            /\ lent' = CASE r.state = "Yielded" -> Append(lent, Some(Some(r.val)))
                         [] r.state = "Complete" -> Append(lent, Some(None))
                         [] r.state = "Panic" -> lent
    /\ UNCHANGED <<given, takes, quick_iter, iter, out, fpc>>

Next == GenIterNext \/ GenIterTake \/ GenIterAsMut

Spec == Init /\ [][Next]_vars

(***************************************************************************)
(* Iter: the wrapper that borrows a generator its caller owns.             *)
(***************************************************************************)
\* Iter::new: the pinned reference to the caller's generator
IterNew(reference) == Some(reference)

\* the generators of tests::generator_map, and their like
Pipelines ==
    Closures
    \cup {MapNew(c, f) : c \in Closures, f \in Funcs}
    \cup {FilterNew(c, p) : c \in Closures, p \in Preds}
    \cup {FilterNew(MapNew(c, f), p) : c \in Closures, f \in Funcs, p \in Preds}
    \cup {MapNew(FilterNew(c, p), f) : c \in Closures, f \in Funcs, p \in Preds}

InitIter ==
    /\ quick_iter \in Pipelines
    /\ given = quick_iter
    /\ iter = IterNew("quick_iter")
    /\ slot = None
    /\ takes = <<>>
    /\ out = <<>>
    /\ lent = <<>>
    /\ resumed = 0
    /\ late = 0
    /\ last = NoState
    /\ completed = FALSE
    /\ panicked = FALSE
    /\ fpc = "idle"

\* Iter::next gone wrong: the pinned reference is stored back after None too
IterNextKeeps ==
    /\ ~panicked
    /\ Len(out) < MaxCalls
    /\ IF iter = None
       THEN /\ out' = Append(out, None)
            /\ UNCHANGED <<quick_iter, iter, resumed, late, last, completed, panicked>>
       ELSE LET n == GenTraitNext(quick_iter) IN
            /\ Observe(n.res)
            /\ quick_iter' = n.gen
            /\ iter' = IF n.res.state = "Panic" THEN None ELSE iter
            /\ out' = IF n.res.state = "Panic" THEN out ELSE Append(out, n.opt)
    /\ UNCHANGED <<given, slot, takes, lent, fpc>>

\* <Iter as Iterator>::next
IterNext ==
    /\ ~panicked
    /\ Len(out) < MaxCalls
    /\ IF iter = None
       THEN /\ out' = Append(out, None)
            /\ UNCHANGED <<quick_iter, iter, resumed, late, last, completed, panicked>>
       ELSE LET n == GenTraitNext(quick_iter) IN
            /\ Observe(n.res)
            /\ quick_iter' = n.gen
            /\ CASE n.res.state = "Panic" ->
                      /\ iter' = None
                      /\ out' = out
                 [] n.res.state # "Panic" /\ n.opt = None ->
                      /\ iter' = None
                      /\ out' = Append(out, None)
                 [] n.res.state # "Panic" /\ n.opt # None ->
                      /\ iter' = iter
                      /\ out' = Append(out, n.opt)
    /\ UNCHANGED <<given, slot, takes, lent, fpc>>

NextIter == IterNext

SpecIter == InitIter /\ [][NextIter]_vars

(***************************************************************************)
(* Filter::resume turn by turn, over generators that may never complete.   *)
(***************************************************************************)
MaxTurns == 8    \* turns of the loop that are followed

Inners ==
    Closures
    \cup {RepeatGen(x) : x \in Vals}
    \cup {MapNew(RepeatGen(x), f) : x \in Vals, f \in Funcs}

InitFilter ==
    /\ quick_iter \in {FilterNew(g, p) : g \in Inners, p \in Preds}
    /\ given = quick_iter
    /\ iter = None
    /\ slot = None
    /\ takes = <<>>
    /\ out = <<>>
    /\ lent = <<>>
    /\ resumed = 0
    /\ late = 0
    /\ last = NoState
    /\ completed = FALSE
    /\ panicked = FALSE
    /\ fpc = "idle"

\* a caller enters Filter::resume; it does so only while the generator has
\* not completed
FilterCall ==
    /\ ~panicked
    /\ fpc \in {"idle", "returned"}
    /\ ~completed
    /\ quick_iter.calls + MaxLen + 1 <= MaxTurns
    /\ fpc' = "loop"
    /\ quick_iter' = [quick_iter EXCEPT !.resumes = @ + 1]
    /\ resumed' = resumed + 1
    /\ UNCHANGED <<given, slot, takes, iter, out, lent, late, last, completed,
                   panicked>>

\* one turn of the loop of Filter::resume
FilterStep ==
    /\ fpc = "loop"
    /\ quick_iter.calls < MaxTurns
    /\ LET t == FilterTurn(quick_iter) IN
       /\ quick_iter' = t.res.gen
       /\ IF t.brk
          THEN /\ fpc' = IF t.res.state = "Panic" THEN "unwound" ELSE "returned"
               /\ last' = t.res
               /\ completed' = (t.res.state = "Complete")
               /\ panicked' = (t.res.state = "Panic")
               /\ out' = IF t.res.state = "Yielded"
                         THEN Append(out, Some(t.res.val)) ELSE out
          ELSE /\ fpc' = "loop"
               /\ UNCHANGED <<last, completed, panicked, out>>
    /\ UNCHANGED <<given, slot, takes, iter, lent, resumed, late>>

NextFilter == FilterCall \/ FilterStep

SpecFilter == InitFilter /\ [][NextFilter]_vars /\ WF_vars(FilterStep)

(***************************************************************************)
(* GenIter::next over the closure of alternate_by, the closure body        *)
(* followed turn by turn; n may be 0.  quick_iter is the local gen of      *)
(* GenIter::next while the call runs.                                      *)
(***************************************************************************)
InitAltBy ==
    /\ slot \in {alternate_by(s, n) : s \in DoubleEnded, n \in 0..MaxN}
    /\ given = slot.val
    /\ takes = <<>>
    /\ quick_iter = NoGen
    /\ iter = None
    /\ out = <<>>
    /\ lent = <<>>
    /\ resumed = 0
    /\ late = 0
    /\ last = NoState
    /\ completed = FALSE
    /\ panicked = FALSE
    /\ fpc = "idle"

\* GenIter::next is entered: self.take()?, then gen.resume() begins
AltByCall ==
    /\ ~panicked
    /\ fpc \in {"idle", "returned"}
    /\ Len(out) < MaxCalls
    /\ IF slot = None
       THEN /\ out' = Append(out, None)
            /\ fpc' = "returned"
            /\ UNCHANGED <<slot, quick_iter, resumed, late>>
       ELSE /\ quick_iter' = slot.val
            /\ slot' = None
            /\ fpc' = "loop"
            /\ resumed' = resumed + 1
            /\ late' = IF completed THEN late + 1 ELSE late
            /\ out' = out
    /\ UNCHANGED <<given, takes, iter, lent, last, completed, panicked>>

\* the closure body runs to its next try_yield! or to the end of a for
\* loop; when it yields or returns, GenIter::next returns
AltByStep ==
    /\ fpc = "loop"
    /\ LET t == AlternateByTurn(quick_iter) IN
       IF t.brk
       THEN /\ last' = t.res
            /\ completed' = (completed \/ t.res.state = "Complete")
            /\ panicked' = (t.res.state = "Panic")
            /\ slot' = IF t.res.state = "Yielded" THEN Some(t.res.gen) ELSE None
            /\ out' = CASE t.res.state = "Yielded" -> Append(out, Some(t.res.val))
                        [] t.res.state = "Complete" -> Append(out, None)
                        [] t.res.state = "Panic" -> out
            /\ quick_iter' = NoGen
            /\ fpc' = IF t.res.state = "Panic" THEN "unwound" ELSE "returned"
       ELSE /\ quick_iter' = t.res.gen
            /\ fpc' = "loop"
            /\ UNCHANGED <<last, completed, panicked, slot, out>>
    /\ UNCHANGED <<given, takes, iter, lent, resumed, late>>

NextAltBy == AltByCall \/ AltByStep

SpecAltBy == InitAltBy /\ [][NextAltBy]_vars /\ WF_vars(AltByStep)

(***************************************************************************)
(* GenTrait::next called by a caller that holds the pinned generator       *)
(* itself, with no Iter in between.  Map and Filter hand the caller their  *)
(* inner generator too (AsPin<G>); resumed and last are about the resumes  *)
(* of the pipeline itself.                                                 *)
(***************************************************************************)
InitGenTrait ==
    /\ quick_iter \in Pipelines
    /\ given = quick_iter
    /\ iter = None
    /\ slot = None
    /\ takes = <<>>
    /\ out = <<>>
    /\ lent = <<>>
    /\ resumed = 0
    /\ late = 0
    /\ last = NoState
    /\ completed = FALSE
    /\ panicked = FALSE
    /\ fpc = "idle"

\* GenTrait::next gone wrong: it remembers that the generator completed
GenTraitCallGuarded ==
    /\ ~panicked
    /\ Len(out) < MaxCalls
    /\ IF completed
       THEN /\ out' = Append(out, None)
            /\ UNCHANGED <<quick_iter, resumed, late, last, completed, panicked>>
       ELSE LET n == GenTraitNext(quick_iter) IN
            /\ Observe(n.res)
            /\ quick_iter' = n.gen
            /\ out' = IF n.res.state = "Panic" THEN out ELSE Append(out, n.opt)
    /\ UNCHANGED <<given, slot, takes, iter, lent, fpc>>

\* GenTrait::next(quick_iter.as_pin())
GenTraitCall ==
    /\ ~panicked
    /\ Len(out) < MaxCalls
    /\ LET n == GenTraitNext(quick_iter) IN
       /\ Observe(n.res)
       /\ quick_iter' = n.gen
       /\ out' = IF n.res.state = "Panic" THEN out ELSE Append(out, n.opt)
    /\ UNCHANGED <<given, slot, takes, iter, lent, fpc>>

\* how many wrappers (Map, Filter) lie around the closure of g
RECURSIVE Depth(_)
Depth(g) == IF g.kind \in {"map", "filter"} THEN 1 + Depth(g.generator) ELSE 0

\* resume() of the generator d wrappers inside g, which d calls of
\* AsPin::<G>::as_pin reach; gen is g as that resume left it
RECURSIVE ResumeInside(_, _)
ResumeInside(g, d) ==
    IF d = 0
    THEN Resume(g)
    ELSE LET r == ResumeInside(g.generator, d - 1) IN
         [r EXCEPT !.gen = [g EXCEPT !.generator = r.gen]]

\* GenTrait::next(AsPin::<G>::as_pin(&mut quick_iter)): the owner resumes a
\* generator inside the pipeline, past func and pred
GenTraitInnerCall ==
    /\ ~panicked
    /\ Len(lent) < MaxLent
    /\ \E d \in 1..Depth(quick_iter) :
          LET r == ResumeInside(quick_iter, d) IN
          /\ quick_iter' = r.gen
          /\ late' = IF completed THEN late + 1 ELSE late
          /\ completed' = (completed \/ r.state = "Complete")
          /\ panicked' = (r.state = "Panic")
          /\ lent' = CASE r.state = "Yielded" -> Append(lent, Some(r.val))
                       [] r.state = "Complete" -> Append(lent, None)
                       [] r.state = "Panic" -> lent
    /\ UNCHANGED <<given, slot, takes, iter, out, resumed, last, fpc>>

NextGenTrait == GenTraitCall \/ GenTraitInnerCall

SpecGenTrait == InitGenTrait /\ [][NextGenTrait]_vars

(***************************************************************************)
(* What a generator is meant to produce, stated apart from Resume.         *)
(***************************************************************************)
MapSeq(f, s) == [i \in 1..Len(s) |-> ApplyFunc(f, s[i])]

FilterSeq(p, s) ==
    LET Test(x) == ApplyPred(p, x) IN SelectSeq(s, Test)

RECURSIVE Yields(_)
Yields(g) ==
    CASE g.kind = "gen" -> g.items
      [] g.kind = "map" -> MapSeq(g.func, Yields(g.generator))
      [] g.kind = "filter" -> FilterSeq(g.pred, Yields(g.generator))

RECURSIVE Returns(_)
Returns(g) == IF g.kind = "gen" THEN g.ret ELSE Returns(g.generator)

\* the calls of next() so far returned the items of s, in order, then None
OutIs(s) ==
    \A i \in 1..Len(out) : out[i] = IF i <= Len(s) THEN Some(s[i]) ELSE None

\* no call of GenIter::take() took the generator away
NoTake == \A i \in 1..Len(takes) : takes[i] = None

\* no caller resumed the generator through GenIter::as_mut(): the generator
\* was resumed by calls of next() alone
NoLend == \A i \in 1..Len(lent) : lent[i] = None

Min(a, b) == IF a <= b THEN a ELSE b

\* the place in s of its k-th item that p accepts
PlaceOfKth(p, s, k) ==
    CHOOSE j \in 1..Len(s) :
        /\ ApplyPred(p, s[j])
        /\ Cardinality({i \in 1..j : ApplyPred(p, s[i])}) = k

\* the place in s of its first item that p rejects, Len(s) + 1 if none
FirstRejected(p, s) ==
    IF \E j \in 1..Len(s) : ~ApplyPred(p, s[j])
    THEN CHOOSE j \in 1..Len(s) :
            /\ ~ApplyPred(p, s[j])
            /\ \A i \in 1..(j - 1) : ApplyPred(p, s[i])
    ELSE Len(s) + 1

(***************************************************************************)
(* C1.  GenIter over any closure that yields v1..vn and returns, static    *)
(* literals included: the calls of next() return Some(v1), ..., Some(vn)   *)
(* in that order, and every later call returns None.                       *)
(***************************************************************************)
C1_YieldsThenNoneForever ==
    (given.kind = "gen" /\ NoTake /\ NoLend) => OutIs(given.items)

(***************************************************************************)
(* C2.  Under calls of next() (the generator is not resumed through        *)
(* as_mut() in between) GenIter never resumes its generator after resume() *)
(* returned Complete: from then on the slot is None and no call of next()  *)
(* resumes.                                                                *)
(***************************************************************************)
C2_NoResumeAfterComplete ==
    NoLend =>
        /\ late = 0
        /\ ~panicked
        /\ completed => slot = None
        /\ completed => (last.state = "Complete" /\ resumed <= Len(out))

C2_Witness ==
    /\ NoLend
    /\ completed
    /\ slot = None
    /\ Len(out) >= resumed + 2
    /\ resumed >= 2

(***************************************************************************)
(* C3.  Iter: once GenTrait::next returned None the pinned reference is    *)
(* gone, the generator is not resumed again, and every later call of       *)
(* Iter::next returns None.                                                *)
(***************************************************************************)
C3_IterStopsAfterNone ==
    /\ late = 0
    /\ ~panicked
    /\ completed => /\ iter = None
                    /\ last.state = "Complete"
                    /\ quick_iter = last.gen
                    /\ \A i \in resumed..Len(out) : out[i] = None
    /\ ~completed => /\ iter # None
                     /\ \A i \in 1..Len(out) : out[i] # None

C3_Witness ==
    /\ completed
    /\ iter = None
    /\ given.kind = "filter"
    /\ resumed >= 2
    /\ Len(out) >= resumed + 2

(***************************************************************************)
(* C4.  Map::resume resumes the inner generator exactly once; on           *)
(* Yielded(y) it returns Yielded(f(y)), f applied once to that item; on    *)
(* Complete(r) it returns Complete(r) and does not call f.  So the mapped  *)
(* sequence is f(a), f(b), f(c) in order.                                  *)
(***************************************************************************)
C4_MapResume ==
    given.kind = "map" =>
        /\ OutIs(MapSeq(given.func, Yields(given.generator)))
        /\ quick_iter.resumes = resumed
        /\ quick_iter.generator.resumes = resumed
        /\ quick_iter.calls = Min(resumed, Len(Yields(given.generator)))
        /\ last.state = "Yielded" =>
              last.val = ApplyFunc(given.func, Yields(given.generator)[resumed])
        /\ last.state = "Complete" => last.val = Returns(given.generator)

C4_Witness ==
    /\ given.kind = "map"
    /\ given.generator.kind = "gen"
    /\ Len(given.generator.items) = 3
    /\ given.func = "times10"
    /\ last.state = "Complete"
    /\ last.val = 7
    /\ quick_iter.calls = 3
    /\ out[3] = Some(10 * given.generator.items[3])

(***************************************************************************)
(* C5.  Filter yields exactly the inner items that satisfy the predicate,  *)
(* unchanged and in order, then Complete(r) with the inner generator's     *)
(* final value; each Filter::resume stops resuming the inner generator at  *)
(* the first item it accepts.                                              *)
(***************************************************************************)
C5_FilterResume ==
    given.kind = "filter" =>
        LET inner == Yields(given.generator)
            p == given.pred
        IN  /\ OutIs(FilterSeq(p, inner))
            /\ quick_iter.resumes = resumed
            /\ last.state = "Yielded" =>
                  /\ last.val = FilterSeq(p, inner)[resumed]
                  /\ quick_iter.generator.resumes = PlaceOfKth(p, inner, resumed)
                  /\ quick_iter.calls = PlaceOfKth(p, inner, resumed)
            /\ last.state = "Complete" =>
                  /\ last.val = Returns(given.generator)
                  /\ resumed = Len(FilterSeq(p, inner)) + 1
                  /\ quick_iter.generator.resumes = Len(inner) + 1
                  /\ quick_iter.calls = Len(inner)

C5_Witness ==
    /\ given.kind = "filter"
    /\ given.generator.kind = "map"
    /\ given.pred = "gt199"
    /\ given.generator.func = "times10"
    /\ given.generator.generator.items = <<10, 20, 30>>
    /\ out = <<Some(200), Some(300), None>>
    /\ last.state = "Complete"
    /\ last.val = 7

(***************************************************************************)
(* C6.  A Filter::resume call returns whenever the inner generator goes on *)
(* to yield an item the predicate accepts, or to complete; when the        *)
(* predicate rejects every item and the inner generator never completes,   *)
(* the call never returns: it keeps resuming and yields nothing.           *)
(***************************************************************************)
\* within k resumes, g yields an item p accepts, or completes
RECURSIVE AcceptsOrCompletes(_, _, _)
AcceptsOrCompletes(g, p, k) ==
    /\ k > 0
    /\ LET r == Resume(g) IN
       \/ r.state = "Complete"
       \/ /\ r.state = "Yielded"
          /\ \/ ApplyPred(p, r.val)
             \/ AcceptsOrCompletes(r.gen, p, k - 1)

\* a closure of at most MaxLen yields completes at its resume MaxLen + 1;
\* the closure of repeat is at the same place after every resume
Hopeful(flt) == AcceptsOrCompletes(flt.generator, flt.pred, MaxLen + 1)

C6_FilterReturnsIffHopeful ==
    /\ [](fpc = "loop" /\ Hopeful(quick_iter) => <>(fpc = "returned"))
    /\ [](~Hopeful(given) =>
            /\ fpc # "returned"
            /\ last = NoState
            /\ out = <<>>
            /\ (fpc = "loop" /\ given.generator.kind = "map") =>
                  quick_iter.generator.calls = quick_iter.calls
            /\ fpc = "loop" /\ quick_iter.calls < MaxTurns => ENABLED FilterStep)

C6_Witness ==
    /\ ~Hopeful(given)
    /\ given.generator.kind = "map"
    /\ fpc = "loop"
    /\ quick_iter.calls = MaxTurns
    /\ quick_iter.generator.calls = MaxTurns

(***************************************************************************)
(* C7.  once(x): the first next() returns Some(x); the second and every    *)
(* later next() returns None.                                              *)
(***************************************************************************)
C7_Once ==
    (given.kind = "once" /\ NoTake /\ NoLend) => OutIs(<<given.x>>)

C7_Witness ==
    /\ given.kind = "once"
    /\ NoTake
    /\ NoLend
    /\ Len(out) >= 3
    /\ out[1] = Some(given.x)
    /\ out[2] = None
    /\ out[3] = None

(***************************************************************************)
(* C8.  repeatn(x, n): the first n calls of next() return Some(x) and      *)
(* every later call returns None; for n = 0 the first call returns None.   *)
(***************************************************************************)
C8_Repeatn ==
    (given.kind = "repeatn" /\ NoTake /\ NoLend) =>
        /\ OutIs([i \in 1..given.n |-> given.x])
        /\ (given.n = 0 /\ Len(out) >= 1) => out[1] = None

C8_Witness ==
    /\ given.kind = "repeatn"
    /\ given.n = 2
    /\ NoTake
    /\ NoLend
    /\ out = <<Some(given.x), Some(given.x), None, None>>

(***************************************************************************)
(* C9.  repeat(x) never completes: the k-th call of next() returns         *)
(* Some(x) for every k; the wrapper never becomes Empty and never returns  *)
(* None.                                                                   *)
(***************************************************************************)
C9_RepeatForever ==
    (given.kind = "repeat" /\ NoTake /\ NoLend) =>
        /\ \A k \in 1..Len(out) : out[k] = Some(given.x)
        /\ slot = Some(given)
        /\ ~completed
        /\ resumed = Len(out)

C9_Witness ==
    /\ given.kind = "repeat"
    /\ NoTake
    /\ NoLend
    /\ Len(out) = MaxCalls
    /\ out[MaxCalls] = Some(given.x)

(***************************************************************************)
(* C10.  filter_while(pred, seq) yields the items of seq while pred holds; *)
(* at the first item pred rejects it turns to passing through: it yields   *)
(* every item of seq that follows, in order, and evaluates pred on none of *)
(* them.                                                                   *)
(***************************************************************************)
C10_FilterWhile ==
    (given.kind = "filter_while" /\ NoTake /\ NoLend) =>
        LET s == given.iter.items
            k == FirstRejected(given.f, s)
        IN  /\ OutIs(SubSeq(s, 1, k - 1) \o SubSeq(s, k + 1, Len(s)))
            /\ resumed > 0 =>
                  last.gen.calls = Min(Len(s) - Len(last.gen.iter.items), k)

C10_Witness ==
    /\ given.kind = "filter_while"
    /\ given.f = "gt15"
    /\ given.iter.items = <<20, 10, 30>>
    /\ NoTake
    /\ NoLend
    /\ out = <<Some(20), Some(30), None>>
    /\ last.gen.calls = 2

(***************************************************************************)
(* C11.  alternate over s0..s(L-1) yields s0, s(L-1), s1, s(L-2), ...      *)
(* until the sequence is exhausted, then None; every item is yielded       *)
(* exactly once (0..10 gives 0,9,1,8,2,7,3,6,4,5, None).                   *)
(***************************************************************************)
\* front, back, front, back, ... of s
RECURSIVE Interleave(_)
Interleave(s) ==
    IF Len(s) = 0 THEN <<>>
    ELSE IF Len(s) = 1 THEN s
    ELSE <<s[1], s[Len(s)]>> \o Interleave(SubSeq(s, 2, Len(s) - 1))

\* each item of the range s was returned by exactly one call of next()
EachOnce(s) ==
    \A j \in 1..Len(s) :
        Cardinality({i \in 1..Len(out) : out[i] = Some(s[j])}) = 1

C11_Alternate ==
    (given.kind = "alternate" /\ NoTake /\ NoLend) =>
        LET s == given.iter.items IN
        /\ OutIs(Interleave(s))
        /\ (s \in Ranges /\ completed) => EachOnce(s)

C11_Witness ==
    /\ given.kind = "alternate"
    /\ given.iter.items = RangeSeq(0, 6)
    /\ NoTake
    /\ NoLend
    /\ out = <<Some(0), Some(5), Some(1), Some(4), Some(2), Some(3), None>>

(***************************************************************************)
(* C12.  alternate_by(seq, n), n >= 1: n items from the front, then n      *)
(* items from the back, and so on; it returns None at the first            *)
(* extraction that finds the sequence empty, so every item of seq is       *)
(* yielded exactly once.                                                   *)
(***************************************************************************)
Reverse(s) == [i \in 1..Len(s) |-> s[Len(s) + 1 - i]]

\* n from the front, n from the back (the last first), and so on
RECURSIVE GroupsOf(_, _)
GroupsOf(s, n) ==
    IF Len(s) = 0 THEN <<>>
    ELSE LET f == Min(n, Len(s))
             rest == SubSeq(s, f + 1, Len(s))
             b == Min(n, Len(rest))
         IN  SubSeq(s, 1, f)
             \o Reverse(SubSeq(rest, Len(rest) - b + 1, Len(rest)))
             \o GroupsOf(SubSeq(rest, 1, Len(rest) - b), n)

C12_AlternateBy ==
    (given.kind = "alternate_by" /\ given.n >= 1 /\ NoTake /\ NoLend) =>
        LET s == given.iter.items IN
        /\ OutIs(GroupsOf(s, given.n))
        /\ (s \in Ranges /\ completed) => EachOnce(s)
        /\ completed => last.gen.iter.polls = Len(s) + 1

C12_Witness ==
    /\ given.kind = "alternate_by"
    /\ given.n = 2
    /\ given.iter.items = RangeSeq(0, 6)
    /\ NoTake
    /\ NoLend
    /\ out = <<Some(0), Some(1), Some(5), Some(4), Some(2), Some(3), None>>

(***************************************************************************)
(* C17.  For every finite double-ended sequence and every n >= 0, each     *)
(* call of next() on alternate_by(seq, n) returns, and after finitely many *)
(* calls (at most one per item, and one more) next() returns None.         *)
(***************************************************************************)
C17_EveryCallReturns ==
    /\ [](fpc = "loop" => <>(fpc = "returned"))
    /\ [](Len(out) > Len(given.iter.items) =>
            out[Len(given.iter.items) + 1] = None)

(***************************************************************************)
(* C13.  flatten yields, for each inner sequence in outer order, all of    *)
(* its items in order before any item of the next; empty inner sequences   *)
(* give nothing; the next inner sequence is pulled from the outer one only *)
(* after the one before is exhausted.                                      *)
(***************************************************************************)
RECURSIVE Concat(_)
Concat(ss) == IF ss = <<>> THEN <<>> ELSE Head(ss) \o Concat(Tail(ss))

\* for each item of Concat(ss), the place in ss of the sequence it is from
RECURSIVE Origins(_, _)
Origins(ss, j) ==
    IF j > Len(ss) THEN <<>>
    ELSE [i \in 1..Len(ss[j]) |-> j] \o Origins(ss, j + 1)

C13_Flatten ==
    (given.kind = "flatten" /\ NoTake /\ NoLend) =>
        LET ss == given.iter.items IN
        /\ OutIs(Concat(ss))
        /\ last.state = "Yielded" =>
              /\ last.gen.iter.polls = Origins(ss, 1)[resumed]
              /\ Len(last.gen.iter.items) = Len(ss) - Origins(ss, 1)[resumed]
        /\ last.state = "Complete" =>
              /\ last.gen.iter.polls = Len(ss) + 1
              /\ resumed = Len(Concat(ss)) + 1

C13_Witness ==
    /\ given.kind = "flatten"
    /\ given.iter.items = <<<<20, 30>>, <<10>>, <<>>, <<20, 30>>>>
    /\ NoTake
    /\ NoLend
    /\ out = <<Some(20), Some(30), Some(10), Some(20), Some(30), None>>

(***************************************************************************)
(* C14.  For all eight combinations of start, stop and step being present, *)
(* islice yields what is left after: dropping the first start items if     *)
(* start is present, then keeping every step-th item, the first one        *)
(* included, if step is present, then keeping at most stop items if stop   *)
(* is present; stop counts yielded items, it is no index.                  *)
(***************************************************************************)
Skipped(s, start) ==
    IF start = None THEN s ELSE SubSeq(s, Min(start.val, Len(s)) + 1, Len(s))

Stepped(s, step) ==
    IF step = None THEN s
    ELSE [i \in 1..((Len(s) + step.val - 1) \div step.val) |->
             s[(i - 1) * step.val + 1]]

Taken(s, stop) ==
    IF stop = None THEN s ELSE SubSeq(s, 1, Min(stop.val, Len(s)))

Sliced(g) == Taken(Stepped(Skipped(g.iter.items, g.start), g.step), g.stop)

C14_ISlice ==
    (given.kind = "islice" /\ NoTake /\ NoLend) => OutIs(Sliced(given))

C14_Witness ==
    /\ given.kind = "islice"
    /\ given.iter.items = RangeSeq(1, 7)
    /\ given.start = Some(1)
    /\ given.stop = Some(3)
    /\ given.step = Some(2)
    /\ NoTake
    /\ NoLend
    /\ out = <<Some(2), Some(4), Some(6), None>>

(***************************************************************************)
(* C15.  islice with a stop bound, driven to its None over a sequence the  *)
(* caller owns, has consumed no item of it beyond the last one it yielded: *)
(* islice(&mut r, None, Some(3), Some(2)) over 1..=10 yields 1, 3, 5 and   *)
(* r.next() then returns 6.                                                *)
(***************************************************************************)
\* the number of items next() returned, and the last of them (in a range
\* 1..=L an item is its own place; 0 when there is none)
Count == Cardinality({i \in 1..Len(out) : out[i] # None})
LastItem == IF Count = 0 THEN 0 ELSE out[Count].val

\* how many items of the caller's sequence are gone
Consumed == Len(given.iter.items) - Len(last.gen.iter.items)

\* as claimed: whenever a stop bound is given
C15_NothingBeyondLastYielded ==
    (given.kind = "islice" /\ given.stop # None /\ NoTake /\ NoLend /\ completed) =>
        Consumed = LastItem

\* as it holds: when the stop bound is what ended the slice
C15_NothingBeyondWhenStopReached ==
    (given.kind = "islice" /\ given.stop # None /\ NoTake /\ NoLend /\ completed
        /\ Count = given.stop.val) =>
        /\ Consumed = LastItem
        /\ StdNext(last.gen.iter).opt =
              IF LastItem < Len(given.iter.items) THEN Some(LastItem + 1) ELSE None

C15_Witness ==
    /\ given.kind = "islice"
    /\ given.iter.items = RangeSeq(1, 7)
    /\ given.start = None
    /\ given.stop = Some(3)
    /\ given.step = Some(2)
    /\ NoTake
    /\ NoLend
    /\ completed
    /\ out = <<Some(1), Some(3), Some(5), None>>
    /\ StdNext(last.gen.iter).opt = Some(6)

(***************************************************************************)
(* C16.  GenIter::new performs no resume; a call of next() performs        *)
(* exactly one resume when the slot is Holding and none when it is Empty;  *)
(* after a call of next() the slot is Holding if and only if the call      *)
(* returned Some; Empty stays Empty under next(), also after take()        *)
(* emptied the slot.                                                       *)
(***************************************************************************)
\* g, wherever it lies
Placeless(g) == IF g.kind = "gen" THEN [g EXCEPT !.dangling = FALSE] ELSE g

C16_SlotDiscipline ==
    /\ resumed = 0 /\ slot = Some(given)
    /\ [][Len(out') = Len(out) + 1 =>
            /\ slot = None =>
                  /\ resumed' = resumed
                  /\ slot' = None
                  /\ out'[Len(out')] = None
            /\ slot # None => resumed' = resumed + 1
            /\ slot' # None <=> out'[Len(out')] # None]_vars
    /\ [][Len(takes') = Len(takes) + 1 =>
            /\ takes'[Len(takes')] = None <=> slot = None
            /\ slot # None =>
                  Placeless(takes'[Len(takes')].val) = Placeless(slot.val)
            /\ slot' = None
            /\ resumed' = resumed]_vars

C16_Witness ==
    /\ Len(takes) = 1
    /\ takes[1] # None
    /\ resumed = 1
    /\ ~completed
    /\ slot = None
    /\ Len(out) = 3
    /\ out[1] # None
    /\ out[2] = None
    /\ out[3] = None

(***************************************************************************)
(* C18.  In alternate and alternate_by the first front or back extraction  *)
(* that gives nothing completes the computation: the other end is not      *)
(* tried in its place, and no later call of next() polls the underlying    *)
(* sequence.                                                               *)
(***************************************************************************)
C18_FirstFailureEnds ==
    (given.kind \in {"alternate", "alternate_by"} /\ NoTake /\ NoLend) =>
        /\ resumed > 0 => last.gen.iter.polls = resumed
        /\ last.state = "Yielded" => Count = resumed
        /\ completed =>
              /\ last.state = "Complete"
              /\ Count = resumed - 1
              /\ slot = None
              /\ \A i \in resumed..Len(out) : out[i] = None

C18_Witness ==
    /\ given.kind = "alternate"
    /\ Len(given.iter.items) = 3
    /\ NoTake
    /\ NoLend
    /\ completed
    /\ last.gen.pc = "done"
    /\ last.gen.iter.polls = 4
    /\ Len(out) = 6

(***************************************************************************)
(* C19.  filter_while consumes the first item the predicate rejects and    *)
(* does not yield it: the output is the input with exactly that item       *)
(* removed, one item fewer; with no rejected item the output is the input. *)
(***************************************************************************)
\* s without its k-th item
Without(s, k) == [i \in 1..(Len(s) - 1) |-> IF i < k THEN s[i] ELSE s[i + 1]]

C19_DropsFirstRejected ==
    (given.kind = "filter_while" /\ NoTake /\ NoLend /\ completed) =>
        LET s == given.iter.items
            k == FirstRejected(given.f, s)
            got == [i \in 1..Count |-> out[i].val]
        IN  /\ last.gen.iter.items = <<>>
            /\ k <= Len(s) => (got = Without(s, k) /\ Count = Len(s) - 1)
            /\ k > Len(s) => got = s

C19_Witness ==
    /\ given.kind = "filter_while"
    /\ given.f = "gt15"
    /\ given.iter.items = <<10, 20, 10>>
    /\ NoTake
    /\ NoLend
    /\ completed
    /\ out = <<Some(20), Some(10), None>>

(***************************************************************************)
(* C20.  GenTrait::next keeps no completion state: every call resumes the  *)
(* generator exactly once and returns Some(y) on Yielded(y), None on       *)
(* Complete; that a completed generator is not resumed again is the doing  *)
(* of Iter and GenIter, not of GenTrait::next.                             *)
(***************************************************************************)
\* a step is a call of GenTrait::next on the pipeline when it returns
\* (out grows) or resumes the pipeline (its count of resumes grows)
C20_NextAlwaysResumes ==
    [][(out' # out \/ quick_iter'.resumes # quick_iter.resumes) =>
          /\ resumed' = resumed + 1
          /\ quick_iter'.resumes = quick_iter.resumes + 1
          /\ late' = IF completed THEN late + 1 ELSE late
          /\ last'.state = "Yielded" => out' = Append(out, Some(last'.val))
          /\ last'.state = "Complete" => out' = Append(out, None)
          /\ last'.state = "Panic" => completed]_vars

C20_Witness ==
    /\ completed
    /\ late = 1
    /\ panicked
    /\ last.state = "Panic"
    /\ out # <<>>
    /\ out[Len(out)] = None

====
